---- MODULE Spec2Model ----
(***************************************************************************)
(* Model of FileService (src/src/services/file_service.py) together with   *)
(* the two collaborators it drives: the SQLAlchemy unit-of-work session    *)
(* built in src/src/db.py and the fsspec byte storage.                     *)
(*                                                                         *)
(* The metadata store is `db` (committed rows of table file_meta).  A      *)
(* session keeps an identity map of the FileMeta objects it created and a  *)
(* set of objects marked for deletion; nothing reaches `db` before a       *)
(* commit(), and a commit flushes everything the session has pending.      *)
(* FileMeta (src/src/models.py) maps id, owner_id, name, size,             *)
(* content_type, status, created_at, updated_at.  It maps no internal_name *)
(* column: `file_meta.internal_name = ...` sets a plain attribute on the   *)
(* Python object, which lives only as long as that object stays in the     *)
(* session's identity map.  owner_id, name, size and the timestamps are    *)
(* written once and never read by the service; they are left out of rows.  *)
(*                                                                         *)
(* Every `await` of the service is a point where another task may run, so  *)
(* upload and delete are split at the awaits that separate a storage       *)
(* effect from a metadata effect, and get_file is split at its yield.      *)
(*                                                                         *)
(* Spec is the service with a backend bound and the configuration it is    *)
(* constructed with (any format, 10 as size limit).  SpecConfig starts     *)
(* before set_storage and adds the three setters.  SpecLive is Spec        *)
(* without crashes, with the fairness of a coroutine whose awaits return.  *)
(***************************************************************************)
EXTENDS Integers, Sequences, FiniteSets, TLC

\* ---------------------------------------------------------------- bounds
MaxFiles == 2
MaxLen == 1

Sessions == {"s1", "s2"}
Bytes == {0}

\* ------------------------------------------------------------- constants
DefaultMaxFileSize == 10

\* Python None for str-valued arguments / columns.
None == "None"
\* Python None for the int-valued `size` (declared sizes are >= 0).
NoSize == -1
\* The FileMeta object carries no internal_name attribute.
NoAttr == << >>

UPLOADING == "upload"
OK == "ok"
ERROR == "error"
BLOCKED == "blocked"
FileStatus == {UPLOADING, OK, ERROR, BLOCKED}

Ids == 1..MaxFiles

\* Inputs the model enumerates.
MimeTypes == {"application/octet-stream"}
ContentTypeArgs == MimeTypes \cup {None}
NameArgs == {"a.txt", None}
SizeArgs == {NoSize, 10, 11}

RECURSIVE SeqsUpTo(_)
SeqsUpTo(n) ==
    IF n = 0 THEN {<< >>}
    ELSE LET shorter == SeqsUpTo(n - 1)
         IN shorter \cup {Append(q, b) : q \in {x \in shorter : Len(x) = n - 1}, b \in Bytes}

\* The byte strings a caller uploads: every non-empty one up to MaxLen.
Contents == SeqsUpTo(MaxLen) \ {<< >>}

\* What a write stream that failed part-way can leave behind at its key.
Prefixes(data) == {SubSeq(data, 1, k) : k \in 0..Len(data)}

\* ------------------------------------------------------- partial functions
Put(f, k, v) == [x \in (DOMAIN f) \cup {k} |-> IF x = k THEN v ELSE f[x]]
Drop(f, k) == [x \in (DOMAIN f) \ {k} |-> f[x]]
Empty == [x \in {} |-> 0]

\* ------------------------------------------------------------- mimetypes
guess_type(name) ==
    CASE name = "a.txt" -> "text/plain"
      [] name = "a.bin" -> "application/octet-stream"
      [] OTHER -> None

guess_extension(mime_type) ==
    CASE mime_type = "text/plain" -> ".txt"
      [] mime_type = "application/octet-stream" -> ".bin"
      [] OTHER -> None

\* A file name derived from the content type alone.
file_name_by_extension(file_id, mime_type) ==
    IF mime_type = None THEN <<0, "">>
    ELSE IF mime_type = "application/octet-stream" THEN <<0, ".bin">>
    ELSE LET g == guess_extension(mime_type)
         IN <<0, IF g = None THEN "" ELSE g>>

\* FileService._get_uuid_file_name: f"{file_id}{extension}" as <<id, ext>>.
get_uuid_file_name(file_id, mime_type) ==
    IF mime_type = None THEN <<file_id, "">>
    ELSE IF mime_type = "application/octet-stream" THEN <<file_id, ".bin">>
    ELSE LET g == guess_extension(mime_type)
         IN <<file_id, IF g = None THEN "" ELSE g>>

VARIABLES
    streams,            \* open storage streams: <<session, key>>
    db,                 \* committed rows of file_meta: id -> row
    storage,            \* stored objects: key -> bytes
    sess,               \* per session: identity map and pending deletes
    task,               \* per session: the service call in progress
    next_id,            \* the next uuid4 FileMeta.id default
    max_file_size,      \* FileService._max_file_size
    supported_formats,  \* FileService._supported_formats
    bound_storage,      \* FileService._storage: None or the backend bound
    last,               \* what the step just taken returned or raised
    committed,          \* history: ids whose row was ever committed
    sent                \* history: id -> bytes handed to the upload of id

vars == <<streams, db, storage, sess, task, next_id, max_file_size, supported_formats,
          bound_storage, last, committed, sent>>

\* The configuration of the service: limits, formats and the bound backend.
config == <<max_file_size, supported_formats, bound_storage>>

\* The storage backends a caller can hand to set_storage.
Backends == {"fs1", "fs2"}

Idle == [op |-> "idle"]
FreshSession == [cache |-> Empty, deleted |-> {}]

\* What a call reports: result is "ok" or the exception raised; status and
\* internal_name are those of the FileMeta the call held; io tells what became
\* of the stream the call opened on the storage ("none": storage.open was not
\* called); bytes is what the stream carried.
Outcome(op, result, id, status, name, io, bytes) ==
    [op |-> op, result |-> result, id |-> id, status |-> status,
     internal_name |-> name, io |-> io, bytes |-> bytes,
     args |-> [name |-> None, size |-> NoSize, content_type |-> None]]

\* What the validation of upload reports, with the arguments it was given:
\* op "upload" and the exception when the call ends there, op "upload_begin"
\* when the call goes on to create its record.
Validated(op, result, name, size, content_type) ==
    [Outcome(op, result, 0, None, NoAttr, "none", << >>) EXCEPT
        !.args = [name |-> name, size |-> size, content_type |-> content_type]]

\* The step taken returned nothing to a caller.
NoReturn == Outcome("none", "ok", 0, None, NoAttr, "none", << >>)

Init ==
    /\ db = Empty
    /\ streams = {}
    /\ storage = Empty
    /\ sess = [s \in Sessions |-> FreshSession]
    /\ task = [s \in Sessions |-> Idle]
    /\ next_id = 1
    /\ max_file_size = DefaultMaxFileSize
    /\ supported_formats = {"*"}
    /\ bound_storage = "fs1"
    /\ last = NoReturn
    /\ committed = {}
    /\ sent = Empty

\* ------------------------------------------------------------ FileMeta
\* FileMeta(...) as built by upload; the object has no internal_name yet.
FileMeta(content_type, status) ==
    [status |-> status, content_type |-> content_type, internal_name |-> NoAttr]

\* The mapped columns of a FileMeta object: what INSERT / UPDATE persist.
ToRow(obj) ==
    [status |-> obj.status, content_type |-> obj.content_type]

\* A FileMeta object built from a row by session.get: mapped columns only.
Load(row) ==
    [status |-> row.status, content_type |-> row.content_type,
     internal_name |-> NoAttr]

\* ------------------------------------------------------------- session
\* Flush of the objects marked by session.delete: DELETE their rows.
flush_deleted(d, s) == [x \in (DOMAIN d) \ sess[s].deleted |-> d[x]]

\* flush_new with the INSERT left for a later commit.
flush_new_deferred(d, id, obj) == d

\* Flush of a pending new object: INSERT its row.
flush_new(d, id, obj) == Put(d, id, ToRow(obj))

\* A final flush whose UPDATE never reaches the metadata store.
flush_dirty_lost(d, id, obj) == d

\* Flush of a dirty object: UPDATE its row.
flush_dirty(d, id, obj) == Put(d, id, ToRow(obj))

\* The session after a commit: deleted objects leave the identity map.
after_commit(s) ==
    [cache |-> [x \in (DOMAIN sess[s].cache) \ sess[s].deleted |-> sess[s].cache[x]],
     deleted |-> {}]

\* session.get: the identity map answers first, else the row is loaded.
\* The identity map of the model holds the objects the session created; an
\* object that was only loaded has no attribute besides its columns and is
\* read again from its row by the next get.
session_has(s, id) == id \in DOMAIN sess[s].cache \/ id \in DOMAIN db
session_get(s, id) ==
    IF id \in DOMAIN sess[s].cache THEN sess[s].cache[id] ELSE Load(db[id])

\* ------------------------------------------------------------------ upload
\* Line 93-94: the content type upload works with.
resolve_content_type(name, content_type) ==
    IF content_type = None /\ name # None THEN guess_type(name) ELSE content_type

\* Line 96-100
bad_format(content_type) ==
    /\ "*" \notin supported_formats
    /\ content_type # None
    /\ content_type \notin supported_formats

\* too_big that also refuses a size equal to the limit.
too_big_or_equal(size) == size # NoSize /\ size >= max_file_size

\* Line 105
too_big(size) == size # NoSize /\ size > max_file_size

\* Uploads that hold a FileMeta not yet inserted; each will take an id.
PendingUploads ==
    Cardinality({s \in Sessions : task[s].op = "upload" /\ task[s].pc = "commit"})

\* upload that inserts the row before it validates the request.
UploadBegin_insert_first(s, name, size, content_type, data) ==
    /\ task[s] = Idle
    /\ next_id + PendingUploads <= MaxFiles
    /\ LET ct == resolve_content_type(name, content_type)
       IN IF bad_format(ct) \/ too_big(size)
          THEN /\ last' = Validated("upload",
                              IF bad_format(ct) THEN "BadFileFormatExc"
                                                ELSE "FileTooBigExc",
                              name, size, content_type)
               /\ db' = flush_new(db, next_id, FileMeta(ct, UPLOADING))
               /\ next_id' = next_id + 1
               /\ committed' = committed \cup {next_id}
               /\ UNCHANGED task
          ELSE /\ task' = [task EXCEPT ![s] =
                             [op |-> "upload", pc |-> "commit", id |-> 0,
                              data |-> data, wrote |-> "no",
                              obj |-> FileMeta(ct, UPLOADING)]]
               /\ last' = Validated("upload_begin", "ok", name, size, content_type)
               /\ UNCHANGED <<db, next_id, committed>>
    /\ UNCHANGED <<streams, storage, sess, config, sent>>

\* Lines 93-115: validation, FileMeta(...), session.add.
UploadBegin(s, name, size, content_type, data) ==
    /\ task[s] = Idle
    /\ LET ct == resolve_content_type(name, content_type)
       IN IF bad_format(ct)
          THEN /\ last' = Validated("upload", "BadFileFormatExc", name, size,
                                    content_type)
               /\ UNCHANGED task
          ELSE IF too_big(size)
          THEN /\ last' = Validated("upload", "FileTooBigExc", name, size,
                                    content_type)
               /\ UNCHANGED task
          ELSE /\ next_id + PendingUploads <= MaxFiles
               /\ task' = [task EXCEPT ![s] =
                             [op |-> "upload", pc |-> "commit", id |-> 0,
                              data |-> data, wrote |-> "no",
                              obj |-> FileMeta(ct, UPLOADING)]]
               /\ last' = Validated("upload_begin", "ok", name, size, content_type)
    /\ UNCHANGED <<streams, db, storage, sess, next_id, config,
                   committed, sent>>

\* Line 116: session.commit() inserts the row; the uuid4 default fills id.
UploadCommit(s) ==
    /\ task[s].op = "upload" /\ task[s].pc = "commit"
    /\ next_id <= MaxFiles
    /\ db' = flush_new(flush_deleted(db, s), next_id, task[s].obj)
    /\ sess' = [sess EXCEPT ![s] =
                  [cache |-> Put(after_commit(s).cache, next_id, task[s].obj),
                   deleted |-> {}]]
    /\ task' = [task EXCEPT ![s] = [@ EXCEPT !.pc = "write", !.id = next_id]]
    /\ next_id' = next_id + 1
    /\ committed' = committed \cup DOMAIN db'
    /\ sent' = Put(sent, next_id, task[s].data)
    /\ last' = NoReturn
    /\ UNCHANGED <<streams, storage, config>>

\* ----------------------------------------------------------------- streams
\* storage.open returned a stream and `async with` entered it.
open_stream(st, s, key) == st \cup {<<s, key>>}

\* A stream that is closed at the end of the block only, not when the block
\* is left by an exception.
aexit_unless_raised(st, s, key, raised) ==
    IF raised THEN st ELSE st \ {<<s, key>>}

\* Lines 123 and 145: `async with` leaves its block, normally or by an
\* exception (raised): __aexit__ closes the stream either way.
aexit(st, s, key, raised) == st \ {<<s, key>>}

\* write_object that stores the stream before the bytes were read into it.
write_object_empty(st, key, data) == Put(st, key, << >>)

\* Line 123-124 without error: the object at key holds the bytes read.
write_object(st, key, data) == Put(st, key, data)

\* Lines 128-129
on_write_ok(obj, key) == [obj EXCEPT !.status = OK, !.internal_name = key]

\* on_write_error that swallows the exception and leaves the status alone.
on_write_error_pass(obj) == obj

\* on_write_error that files the failed upload as blocked.
on_write_error_blocked(obj) == [obj EXCEPT !.status = BLOCKED]

\* Line 126
on_write_error(obj) == [obj EXCEPT !.status = ERROR]

\* Lines 118-129: derive the key, open, read, write; try / except / else.
\* A failure is either raised by open (nothing stored) or raised after the
\* stream was opened (the backend keeps some prefix of the bytes, or nothing).
\* With no backend bound, self._storage.open raises inside the try.  The
\* stream is used under `async with`, which the block leaves in this step.
UploadWrite(s) ==
    /\ task[s].op = "upload" /\ task[s].pc = "write"
    /\ LET id == task[s].id
           obj == sess[s].cache[id]
           key == get_uuid_file_name(id, obj.content_type)
       IN \/ /\ bound_storage # None
             /\ storage' = write_object(storage, key, task[s].data)
             /\ streams' = aexit(open_stream(streams, s, key), s, key, FALSE)
             /\ sess' = [sess EXCEPT ![s].cache[id] = on_write_ok(obj, key)]
             /\ task' = [task EXCEPT ![s] = [@ EXCEPT !.pc = "finish", !.wrote = "ok"]]
          \/ /\ storage' = storage
             /\ streams' = streams
             /\ sess' = [sess EXCEPT ![s].cache[id] = on_write_error(obj)]
             /\ task' = [task EXCEPT ![s] = [@ EXCEPT !.pc = "finish", !.wrote = "open_failed"]]
          \/ /\ bound_storage # None
             /\ \E p \in Prefixes(task[s].data) : storage' = Put(storage, key, p)
             /\ streams' = aexit(open_stream(streams, s, key), s, key, TRUE)
             /\ sess' = [sess EXCEPT ![s].cache[id] = on_write_error(obj)]
             /\ task' = [task EXCEPT ![s] = [@ EXCEPT !.pc = "finish", !.wrote = "write_failed"]]
    /\ last' = NoReturn
    /\ UNCHANGED <<db, next_id, config, committed, sent>>

\* Lines 130-132: flush([file_meta]), commit, return file_meta.  The UPDATE
\* of a row that is gone matches nothing and flush raises StaleDataError.
UploadFinish(s) ==
    /\ task[s].op = "upload" /\ task[s].pc = "finish"
    /\ LET id == task[s].id
           obj == sess[s].cache[id]
       IN IF id \in DOMAIN db
          THEN /\ db' = flush_deleted(flush_dirty(db, id, obj), s)
               /\ sess' = [sess EXCEPT ![s] = after_commit(s)]
               /\ last' = Outcome("upload", "ok", id, obj.status, obj.internal_name,
                                  task[s].wrote, task[s].data)
          ELSE /\ UNCHANGED <<db, sess>>
               /\ last' = Outcome("upload", "StaleDataError", id, obj.status,
                                  obj.internal_name, task[s].wrote, task[s].data)
    /\ task' = [task EXCEPT ![s] = Idle]
    /\ committed' = committed \cup DOMAIN db'
    /\ UNCHANGED <<streams, storage, next_id, config, sent>>

\* ---------------------------------------------------------------- get_info
\* Lines 148-152
GetInfo(s, id) ==
    /\ task[s] = Idle
    /\ IF session_has(s, id)
       THEN LET obj == session_get(s, id)
            IN last' = Outcome("get_info", "ok", id, obj.status,
                               obj.internal_name, "none", << >>)
       ELSE last' = Outcome("get_info", "FileNotFoundExc", id, None, NoAttr,
                            "none", << >>)
    /\ UNCHANGED <<streams, db, storage, sess, task, next_id, config,
                   committed, sent>>

\* ---------------------------------------------------------------- get_file
\* not_servable without the BLOCKED member of the tuple.
not_servable_unblocked(status) == status \in {UPLOADING, ERROR}

\* Lines 139-143
not_servable(status) == status \in {UPLOADING, ERROR, BLOCKED}

\* Line 145: the key get_file hands to storage.open.
read_key(obj) == obj.internal_name

\* Lines 134-146.  Reading the internal_name of an object that has none, or
\* the open of a backend that was never bound, raises AttributeError; a
\* failure of storage.open propagates.  On success the caller holds the
\* yielded stream until it leaves the block (GetFileExit).
GetFile(s, id) ==
    /\ task[s] = Idle
    /\ IF ~session_has(s, id)
       THEN /\ last' = Outcome("get_file", "FileNotFoundExc", id, None, NoAttr,
                               "none", << >>)
            /\ UNCHANGED <<streams, task>>
       ELSE LET obj == session_get(s, id)
            IN IF not_servable(obj.status)
               THEN /\ last' = Outcome("get_file", "FileNotFoundExc", id,
                                       obj.status, obj.internal_name, "none", << >>)
                    /\ UNCHANGED <<streams, task>>
               ELSE IF bound_storage = None \/ read_key(obj) = NoAttr
               THEN /\ last' = Outcome("get_file", "AttributeError", id,
                                       obj.status, obj.internal_name, "none", << >>)
                    /\ UNCHANGED <<streams, task>>
               ELSE IF read_key(obj) \notin DOMAIN storage
               THEN /\ last' = Outcome("get_file", "FileNotFoundError", id,
                                       obj.status, obj.internal_name, "open_failed", << >>)
                    /\ UNCHANGED <<streams, task>>
               ELSE \/ /\ last' = Outcome("get_file", "ok", id, obj.status,
                                          obj.internal_name, "ok",
                                          storage[read_key(obj)])
                       /\ streams' = open_stream(streams, s, read_key(obj))
                       /\ task' = [task EXCEPT ![s] =
                                     [op |-> "get_file", pc |-> "yield", id |-> id,
                                      key |-> read_key(obj)]]
                    \/ /\ last' = Outcome("get_file", "StorageError", id,
                                          obj.status, obj.internal_name, "open_failed", << >>)
                       /\ UNCHANGED <<streams, task>>
    /\ UNCHANGED <<db, storage, sess, next_id, config, committed, sent>>

\* Lines 145-146 after the yield: the caller leaves its `async with
\* get_file(...)` block, normally or by an exception of its own, which the
\* context manager throws into the generator at the yield.
GetFileExit(s) ==
    /\ task[s].op = "get_file" /\ task[s].pc = "yield"
    /\ \E raised \in BOOLEAN :
          /\ streams' = aexit(streams, s, task[s].key, raised)
          /\ last' = Outcome("get_file_exit",
                             IF raised THEN "CallerError" ELSE "ok",
                             task[s].id, None, task[s].key, "closed", << >>)
    /\ task' = [task EXCEPT ![s] = Idle]
    /\ UNCHANGED <<db, storage, sess, next_id, config, committed, sent>>

\* ------------------------------------------------------------------ delete
\* Lines 155-156: get_info, then storage.rm(file_meta.internal_name).
DeleteBegin(s, id) ==
    /\ task[s] = Idle
    /\ IF ~session_has(s, id)
       THEN /\ last' = Outcome("delete", "FileNotFoundExc", id, None, NoAttr,
                               "none", << >>)
            /\ UNCHANGED <<storage, task>>
       ELSE LET obj == session_get(s, id)
            IN IF bound_storage = None \/ obj.internal_name = NoAttr
                  THEN /\ last' = Outcome("delete", "AttributeError", id,
                                          obj.status, obj.internal_name, "none", << >>)
                       /\ UNCHANGED <<storage, task>>
                  ELSE IF obj.internal_name \notin DOMAIN storage
                  THEN /\ last' = Outcome("delete", "FileNotFoundError", id,
                                          obj.status, obj.internal_name, "none", << >>)
                       /\ UNCHANGED <<storage, task>>
                  ELSE \/ /\ storage' = Drop(storage, obj.internal_name)
                          /\ task' = [task EXCEPT ![s] =
                                        [op |-> "delete", pc |-> "row", id |-> id]]
                          /\ last' = NoReturn
                       \/ /\ last' = Outcome("delete", "StorageError", id,
                                             obj.status, obj.internal_name, "none", << >>)
                          /\ UNCHANGED <<storage, task>>
    /\ UNCHANGED <<streams, db, sess, next_id, config, committed, sent>>

\* Line 157: session.delete(file_meta) marks the object; delete returns.
DeleteRow(s) ==
    /\ task[s].op = "delete" /\ task[s].pc = "row"
    /\ LET id == task[s].id
           obj == sess[s].cache[id]
       IN /\ sess' = [sess EXCEPT ![s].deleted = @ \cup {id}]
          /\ last' = Outcome("delete", "ok", id, obj.status, obj.internal_name,
                             "none", << >>)
    /\ task' = [task EXCEPT ![s] = Idle]
    /\ UNCHANGED <<streams, db, storage, next_id, config,
                   committed, sent>>

\* ------------------------------------------------------------- environment
\* db.get_db: the session is closed when the request scope ends; nothing
\* commits what is pending, and the next request gets a new session.
CloseSession(s) ==
    /\ task[s] = Idle
    /\ sess[s] # FreshSession
    /\ sess' = [sess EXCEPT ![s] = FreshSession]
    /\ last' = NoReturn
    /\ UNCHANGED <<streams, db, storage, task, next_id, config,
                   committed, sent>>

\* The process dies while the call of session s is in progress: every call
\* and every session is lost, the metadata store and the storage keep what
\* they hold.  last names the call and the step the crash interrupted.
Crash(s) ==
    /\ task[s] # Idle
    /\ task' = [x \in Sessions |-> Idle]
    /\ sess' = [x \in Sessions |-> FreshSession]
    /\ last' = Outcome("crash", task[s].op \o ":" \o task[s].pc, task[s].id, None,
                       NoAttr, "none", << >>)
    /\ streams' = {}
    /\ UNCHANGED <<db, storage, next_id, config,
                   committed, sent>>

\* The moderation collaborator blocks a servable record in its own transaction.
Moderate(id) ==
    /\ id \in DOMAIN db
    /\ db[id].status = OK
    /\ db' = [db EXCEPT ![id].status = BLOCKED]
    /\ last' = NoReturn
    /\ UNCHANGED <<streams, storage, sess, task, next_id, config,
                   committed, sent>>

Next ==
    \/ \E s \in Sessions, name \in NameArgs, size \in SizeArgs,
          content_type \in ContentTypeArgs, data \in Contents :
            UploadBegin(s, name, size, content_type, data)
    \/ \E s \in Sessions : UploadCommit(s)
    \/ \E s \in Sessions : UploadWrite(s)
    \/ \E s \in Sessions : UploadFinish(s)
    \/ \E s \in Sessions, id \in Ids : GetInfo(s, id)
    \/ \E s \in Sessions, id \in Ids : GetFile(s, id)
    \/ \E s \in Sessions : GetFileExit(s)
    \/ \E s \in Sessions, id \in Ids : DeleteBegin(s, id)
    \/ \E s \in Sessions : DeleteRow(s)
    \/ \E s \in Sessions : CloseSession(s)
    \/ \E s \in Sessions : Crash(s)
    \/ \E id \in Ids : Moderate(id)

Spec == Init /\ [][Next]_vars

\* ----------------------------------------------------------- configuration
\* The values the model hands to the setters.
MaxSizeArgs == {10, 11}
FormatListArgs == {<< >>, <<"*">>, <<"text/plain">>}

\* What FileService._storage holds once the singleton is constructed.
InitialStorage == None

\* set_storage that binds whatever it is given.
SetStorageAlways(value) ==
    /\ bound_storage' = value
    /\ last' = Outcome("set_storage", "ok", 0, None, NoAttr, "none", << >>)
    /\ UNCHANGED <<streams, db, storage, sess, task, next_id, max_file_size,
                   supported_formats, committed, sent>>

\* Lines 48-51: FileService.set_storage
SetStorage(value) ==
    /\ IF bound_storage # None
       THEN /\ last' = Outcome("set_storage", "InitServiceExc", 0, None, NoAttr,
                               "none", << >>)
            /\ UNCHANGED bound_storage
       ELSE /\ bound_storage' = value
            /\ last' = Outcome("set_storage", "ok", 0, None, NoAttr, "none", << >>)
    /\ UNCHANGED <<streams, db, storage, sess, task, next_id, max_file_size,
                   supported_formats, committed, sent>>

\* Lines 53-54: FileService.set_max_file_size
SetMaxFileSize(value) ==
    /\ max_file_size' = value
    /\ last' = Outcome("set_max_file_size", "ok", 0, None, NoAttr, "none", << >>)
    /\ UNCHANGED <<streams, db, storage, sess, task, next_id, supported_formats,
                   bound_storage, committed, sent>>

\* Lines 56-71: FileService.set_supported_formats.  isinstance(v, Tuple[str,
\* str]) raises TypeError for every v (a subscripted generic cannot be used
\* in an instance check), so the loop raises on the first element and the
\* assignment of line 71 is reached for the empty list only.
SetSupportedFormats(value) ==
    /\ IF Len(value) = 0
       THEN /\ supported_formats' = {}
            /\ last' = Outcome("set_supported_formats", "ok", 0, None, NoAttr,
                               "none", << >>)
       ELSE /\ UNCHANGED supported_formats
            /\ last' = Outcome("set_supported_formats", "TypeError", 0, None,
                               NoAttr, "none", << >>)
    /\ UNCHANGED <<streams, db, storage, sess, task, next_id, max_file_size,
                   bound_storage, committed, sent>>

\* The service from its construction on, configuration calls included.
InitConfig ==
    /\ db = Empty
    /\ streams = {}
    /\ storage = Empty
    /\ sess = [s \in Sessions |-> FreshSession]
    /\ task = [s \in Sessions |-> Idle]
    /\ next_id = 1
    /\ max_file_size = DefaultMaxFileSize
    /\ supported_formats = {"*"}
    /\ bound_storage = InitialStorage
    /\ last = NoReturn
    /\ committed = {}
    /\ sent = Empty

\* The configuration calls interleave with the requests of one client.
ConfigSessions == {"s1"}

NextConfig ==
    \/ \E value \in Backends : SetStorage(value)
    \/ \E value \in MaxSizeArgs : SetMaxFileSize(value)
    \/ \E value \in FormatListArgs : SetSupportedFormats(value)
    \/ \E s \in ConfigSessions, name \in NameArgs, size \in SizeArgs,
          content_type \in ContentTypeArgs, data \in Contents :
            UploadBegin(s, name, size, content_type, data)
    \/ \E s \in ConfigSessions : UploadCommit(s)
    \/ \E s \in ConfigSessions : UploadWrite(s)
    \/ \E s \in ConfigSessions : UploadFinish(s)
    \/ \E s \in ConfigSessions, id \in Ids : GetInfo(s, id)
    \/ \E s \in ConfigSessions, id \in Ids : GetFile(s, id)
    \/ \E s \in ConfigSessions : GetFileExit(s)
    \/ \E s \in ConfigSessions, id \in Ids : DeleteBegin(s, id)
    \/ \E s \in ConfigSessions : DeleteRow(s)
    \/ \E s \in ConfigSessions : CloseSession(s)
    \/ \E id \in Ids : Moderate(id)

SpecConfig == InitConfig /\ [][NextConfig]_vars

\* ------------------------------------------------------------- no crashes
\* The service while the process stays up: every step but Crash.
NextLive ==
    \/ \E s \in Sessions, name \in NameArgs, size \in SizeArgs,
          content_type \in ContentTypeArgs, data \in Contents :
            UploadBegin(s, name, size, content_type, data)
    \/ \E s \in Sessions : UploadCommit(s)
    \/ \E s \in Sessions : UploadWrite(s)
    \/ \E s \in Sessions : UploadFinish(s)
    \/ \E s \in Sessions, id \in Ids : GetInfo(s, id)
    \/ \E s \in Sessions, id \in Ids : GetFile(s, id)
    \/ \E s \in Sessions : GetFileExit(s)
    \/ \E s \in Sessions, id \in Ids : DeleteBegin(s, id)
    \/ \E s \in Sessions : DeleteRow(s)
    \/ \E s \in Sessions : CloseSession(s)
    \/ \E id \in Ids : Moderate(id)

\* The awaited storage and metadata-store calls of an upload return, so the
\* coroutine goes on to its next statement.
UploadProgress ==
    \A s \in Sessions : WF_vars(UploadWrite(s)) /\ WF_vars(UploadFinish(s))

SpecLive == Init /\ [][NextLive]_vars /\ UploadProgress

TypeOK ==
    /\ streams \subseteq Sessions \X (Ids \X {"", ".txt", ".bin"})
    /\ bound_storage \in Backends \cup {None}
    /\ max_file_size \in MaxSizeArgs
    /\ DOMAIN db \subseteq Ids
    /\ \A id \in DOMAIN db : db[id].status \in FileStatus
    /\ next_id \in 1..(MaxFiles + 1)

\* ------------------------------------------------------------------ claims
\* The key upload derives for the row of id.
KeyOf(id) == get_uuid_file_name(id, db[id].content_type)

\* Some object is stored under a key derived from id.
HasObject(id) == \E key \in DOMAIN storage : key[1] = id

\* C1: an upload that passed validation and whose storage write succeeded
\* returns a record with status OK and an internal name, and the storage holds
\* at that name exactly the bytes submitted.
C1_UploadStoresExactBytes ==
    (last.op = "upload" /\ last.io = "ok") =>
        /\ last.result = "ok"
        /\ last.status = OK
        /\ last.internal_name # NoAttr
        /\ last.internal_name \in DOMAIN storage
        /\ storage[last.internal_name] = last.bytes
        /\ last.bytes = sent[last.id]

C1_Witness ==
    /\ last.op = "upload" /\ last.io = "ok" /\ last.result = "ok"
    /\ last.status = OK
    /\ last.internal_name = <<last.id, ".txt">>
    /\ storage[last.internal_name] = <<0>>

\* C2: when the storage fails while the object is opened or written, upload
\* raises nothing: it returns the record with status ERROR and no internal
\* name, and ERROR is the status of the committed row.
C2_StorageFailureGivesError ==
    (last.op = "upload" /\ last.io \in {"open_failed", "write_failed"}) =>
        /\ last.result = "ok"
        /\ last.status = ERROR
        /\ last.internal_name = NoAttr
        /\ last.id \in DOMAIN db
        /\ db[last.id].status = ERROR

C2_Witness ==
    /\ last.op = "upload" /\ last.io = "write_failed" /\ last.result = "ok"
    /\ last.status = ERROR
    /\ db[last.id].status = ERROR
    /\ HasObject(last.id)

\* C3: the row with status UPLOADING is committed before the first storage
\* operation of its upload; no object is stored, and no upload is at or past
\* its storage write, for an id whose row was never committed.
C3_RowCommittedBeforeWrite ==
    /\ \A s \in Sessions :
         (task[s].op = "upload" /\ task[s].pc \in {"write", "finish"}) =>
             /\ task[s].id \in committed
             /\ task[s].pc = "write" =>
                  (task[s].id \in DOMAIN db /\ db[task[s].id].status = UPLOADING)
    /\ \A key \in DOMAIN storage : key[1] \in committed

C3_Witness ==
    \E s \in Sessions :
        /\ task[s].op = "upload" /\ task[s].pc = "finish"
        /\ HasObject(task[s].id)
        /\ task[s].id \in committed
        /\ db[task[s].id].status = UPLOADING

\* C4: every record of the metadata store has an internal name if and only
\* if its status is OK.
C4_InternalNameIffOk ==
    \A id \in DOMAIN db :
        (Load(db[id]).internal_name # NoAttr) <=> (db[id].status = OK)

\* C5: in every state, every record of the metadata store with status OK has
\* an object in the storage at its internal name (the key upload derived).
C5_OkRowHasObject ==
    \A id \in DOMAIN db : db[id].status = OK => KeyOf(id) \in DOMAIN storage

C7_GetFileReadsUploadedBytes ==
    (last.op = "get_file" /\ last.status = OK /\ last.result # "StorageError") =>
        /\ last.result = "ok"
        /\ last.internal_name = KeyOf(last.id)
        /\ last.bytes = sent[last.id]

\* C8: once delete has returned for an existing record, its row is gone from
\* the metadata store and its object from the storage.
C8_DeleteRemovesBoth ==
    (last.op = "delete" /\ last.result = "ok") =>
        /\ last.id \notin DOMAIN db
        /\ ~HasObject(last.id)

\* C9: a crash between the two steps of delete never leaves a row with
\* status OK whose stored content has been deleted.
C9_CrashLeavesNoDanglingRow ==
    (last.op = "crash" /\ last.result = "delete:row") =>
        ~(/\ last.id \in DOMAIN db
          /\ db[last.id].status = OK
          /\ KeyOf(last.id) \notin DOMAIN storage)

\* C10: delete succeeds and removes the row for an existing record in any
\* status, also one with no internal name and no stored object (the storage
\* backend itself not failing).
C10_DeleteFromAnyStatus ==
    (last.op = "delete" /\ last.result \notin {"FileNotFoundExc", "StorageError"}) =>
        /\ last.result = "ok"
        /\ last.id \notin DOMAIN db

\* An upload call was refused by validation in this step.
UploadRejected ==
    /\ last'.op = "upload"
    /\ last'.result \in {"BadFileFormatExc", "FileTooBigExc"}

\* C11: an upload refused by validation (format or size limit) leaves the
\* system as it was: no row is created, the session holds nothing new, no
\* storage operation is made and no object appears.
C11_RejectedUploadChangesNothing ==
    [][UploadRejected =>
          /\ UNCHANGED <<streams, db, storage, sess, task, next_id, committed, sent>>
          /\ last'.io = "none"
          /\ last'.id = 0]_vars

\* A format rejection while a record and its object are already there.
C11_Witness ==
    /\ last.op = "upload"
    /\ last.result = "BadFileFormatExc"
    /\ db # Empty
    /\ storage # Empty

\* C12: with a supported-format set that is not the wildcard set, an upload
\* passes validation and goes on to create its record only if the resolved
\* content type is a member of the set.
C12_RecordOnlyForSupportedType ==
    (last.op = "upload_begin" /\ "*" \notin supported_formats) =>
        resolve_content_type(last.args.name, last.args.content_type)
            \in supported_formats

\* The declared size of the last upload call is present and above the limit
\* in force during the call.
DeclaredSizeExceedsLimit ==
    last.args.size # NoSize /\ last.args.size > max_file_size

\* C13: an upload call fails with FileTooBigExc exactly when its declared size
\* is present and strictly greater than the limit configured at the call.
C13_SizeLimitExactly ==
    (last.op \in {"upload", "upload_begin"}) =>
        ((last.result = "FileTooBigExc") <=> DeclaredSizeExceedsLimit)

\* C13 (amended): an upload call that got past the format check fails with
\* FileTooBigExc exactly when its declared size is present and strictly
\* greater than the limit configured at the call; a size equal to the limit
\* or an absent size is never refused, and FileTooBigExc is never raised for
\* any other reason.
C13_SizeLimitAfterFormatCheck ==
    (last.op \in {"upload", "upload_begin"}) =>
        /\ (last.result = "FileTooBigExc") => DeclaredSizeExceedsLimit
        /\ (last.result # "BadFileFormatExc") =>
              (DeclaredSizeExceedsLimit => last.result = "FileTooBigExc")

\* A size above the default limit is refused, after the same size had been
\* accepted while the limit was raised to it.
C13_Witness ==
    /\ last.op = "upload"
    /\ last.result = "FileTooBigExc"
    /\ last.args.size = 11
    /\ max_file_size = DefaultMaxFileSize
    /\ db # Empty

StatusChanges == {<<UPLOADING, OK>>, <<UPLOADING, ERROR>>, <<OK, BLOCKED>>}

\* C15: the status of a record changes only from UPLOADING to OK, from
\* UPLOADING to ERROR and from OK to BLOCKED; a record starts as UPLOADING
\* under an id never used before, so a record that reached ERROR or BLOCKED
\* is never OK afterwards.
C15_StatusChangesOnlyForward ==
    [][/\ \A id \in DOMAIN db \cap DOMAIN db' :
              \/ db'[id].status = db[id].status
              \/ <<db[id].status, db'[id].status>> \in StatusChanges
       /\ \A id \in DOMAIN db' \ DOMAIN db :
              /\ db'[id].status = UPLOADING
              /\ id \notin committed]_vars

\* One record has been blocked and another has ended in ERROR.
C15_Witness ==
    \E id1, id2 \in DOMAIN db :
        /\ db[id1].status = BLOCKED
        /\ db[id2].status = ERROR

\* Session s is the upload that inserts its row in this step.
InsertsRow(s) ==
    /\ task[s].op = "upload" /\ task[s].pc = "commit"
    /\ task'[s].op = "upload" /\ task'[s].pc = "write"

\* Session s is the upload that writes its object in this step.
WritesObject(s) ==
    /\ task[s].op = "upload" /\ task[s].pc = "write"
    /\ task'[s].op = "upload" /\ task'[s].pc = "finish"

\* C16: an upload that passed validation inserts exactly one row, under an id
\* no record ever had and no other upload in progress holds; the keys derived
\* for two records differ; and an object is written only by the upload of the
\* record the key derives from, never at the key of another record.
C16_EachUploadItsOwnRecord ==
    [][/\ \A s \in Sessions : InsertsRow(s) =>
              /\ DOMAIN db' \ DOMAIN db = {task'[s].id}
              /\ task'[s].id \notin committed
              /\ \A s2 \in Sessions \ {s} :
                     (task[s2].op = "upload") => (task[s2].id # task'[s].id)
       /\ \A id \in DOMAIN db' \ DOMAIN db : \E s \in Sessions : InsertsRow(s)
       /\ \A i, j \in DOMAIN db : (i # j) => (KeyOf(i) # KeyOf(j))
       /\ \A k \in DOMAIN storage' :
              (k \notin DOMAIN storage \/ storage'[k] # storage[k]) =>
                  \E s \in Sessions :
                      /\ WritesObject(s)
                      /\ k = get_uuid_file_name(task[s].id,
                                 sess[s].cache[task[s].id].content_type)
                      /\ \A id \in DOMAIN db \ {task[s].id} : KeyOf(id) # k]_vars

\* The same bytes were uploaded again after an upload that failed: the retry
\* has its own record and its own object.
C16_Witness ==
    \E i, j \in DOMAIN db :
        /\ i < j
        /\ db[i].status = ERROR /\ db[j].status = OK
        /\ sent[i] = sent[j]
        /\ db[i].content_type = db[j].content_type
        /\ KeyOf(j) \in DOMAIN storage

\* Session s is inside the block of `async with get_file(...)`, holding the
\* stream opened at key.
HoldsStream(s, key) ==
    /\ task[s].op = "get_file"
    /\ task[s].pc = "yield"
    /\ task[s].key = key

\* C17: a stream opened on the storage by get_file or by upload is open only
\* while the operation that opened it is in its block: once upload has left
\* its write step (written, or failed after the open) and once the caller of
\* get_file has left the block (normally or by an exception), the stream is
\* closed; an operation that ended early or whose open failed holds none.
C17_StreamsClosedOnExit ==
    \A st \in streams : HoldsStream(st[1], st[2])

\* The caller raised while using the yielded stream, after an earlier upload
\* had failed behind an open write stream.
C17_Witness ==
    /\ last.op = "get_file_exit"
    /\ last.result = "CallerError"
    /\ \E id \in DOMAIN db : db[id].status = ERROR /\ HasObject(id)

\* C18: while the process stays up and the awaited calls return, every row
\* committed as UPLOADING is eventually a committed row with status OK or
\* ERROR: no record stays UPLOADING once its upload has run, whether the
\* storage write succeeded or failed.
C18_UploadingEventuallySettled ==
    \A id \in Ids :
        (id \in DOMAIN db /\ db[id].status = UPLOADING)
            ~> (id \in DOMAIN db /\ db[id].status \in {OK, ERROR})

\* Two uploads have returned, one stored and one failed, and no row is left
\* UPLOADING.
C18_Witness ==
    /\ last.op = "upload"
    /\ \A s \in Sessions : task[s] = Idle
    /\ \E i, j \in DOMAIN db : db[i].status = OK /\ db[j].status = ERROR
    /\ \A id \in DOMAIN db : db[id].status # UPLOADING

\* C19: after an upload has ended with status ERROR the storage holds no
\* object, whole or partial, at the key derived from the record.
C19_NoObjectAfterError ==
    (last.op = "upload" /\ last.status = ERROR) =>
        get_uuid_file_name(last.id, db[last.id].content_type) \notin DOMAIN storage

\* The upload that created the row of id has not returned yet.
InFlight(id) ==
    \E s \in Sessions : task[s].op = "upload" /\ task[s].id = id

\* C20: when a delete of id ends while the upload that created id is still
\* in flight, then once that upload has ended too there is neither a row nor
\* a stored object for id.
C20_DeleteDuringUploadLeavesNothing ==
    \A id \in Ids :
        [](  (last.op = "delete" /\ last.id = id /\ InFlight(id))
             => [](~InFlight(id) => (id \notin DOMAIN db /\ ~HasObject(id))))

====
